---- MODULE Spec2Model ----
(***************************************************************************)
(* A model of package ts (src/ts/time_series.go): a fixed-step time        *)
(* series over a Go slice of float64.                                      *)
(*                                                                         *)
(* Time is an integer number of ticks (time.Time and time.Duration are     *)
(* both int64 nanosecond counts; the model's ranges stay far away from     *)
(* the int64 limits, so no arithmetic wraps).  The zero time.Time is the   *)
(* instant ZeroT, earlier than every other instant of the model.           *)
(*                                                                         *)
(* A float64 is one of Values.  NaN is one value of the set: the model     *)
(* compares samples by identity of the stored value, it does not model     *)
(* IEEE comparison (NaN # NaN).                                            *)
(*                                                                         *)
(* A Go slice is a reference [arr, len] into a backing array of the heap;  *)
(* the array's length is the slice's capacity.  Two series alias exactly   *)
(* when their slices name the same array.                                  *)
(***************************************************************************)
EXTENDS Integers, Sequences, FiniteSets, TLC

\* ------------------------------------------------------------ bounds

\* No series grows beyond MaxLen samples (guards of the extension actions).
MaxLen == 3

\* Start and end instants handed to the constructors are 1..MaxStart.
MaxStart == 2

\* Steps handed to the constructors are -MaxStep..MaxStep.
MaxStep == 2

\* ------------------------------------------------------------ values

ZeroT == -100

NaN == -1

Values == {NaN, 0, 1}

Keys == {"x", "y"}

Steps == (-MaxStep)..MaxStep

\* time.Now(): some instant of the clock.
Now == 1..MaxStart

Starts == {ZeroT} \cup (1..MaxStart)

\* Every instant a series of the model can cover, and one step around it.
Times == (0 - (MaxLen + 1) * MaxStep)..(MaxStart + (MaxLen + 1) * MaxStep)

Ends == {ZeroT} \cup Times

Durations == (0 - (MaxLen * MaxStep) - 1)..((MaxLen * MaxStep) + 1)

Abs(a) == IF a < 0 THEN 0 - a ELSE a

Max(a, b) == IF a < b THEN b ELSE a

\* Go's integer division: the quotient truncated toward zero.
TruncDiv(a, b) ==
  IF (a < 0) = (b < 0) THEN Abs(a) \div Abs(b) ELSE 0 - (Abs(a) \div Abs(b))

\* The sequence of n copies of x.
Fill(n, x) == [i \in 1..n |-> x]

SeqsUpTo(S, n) == UNION {[1..k -> S] : k \in 0..n}

\* ------------------------------------------------------------ state

Objs == {"ts", "cp", "tr"}

\* Backing arrays: one per slice holder (ts, cp, tr, the Data() result) and
\* two for arrays allocated while a loop of appends runs.
NArr == 6

ArrIds == 1..NArr

VARIABLES
  heap,     \* ArrIds -> the backing array (<<>>: not allocated)
  series,   \* Objs -> the *TimeSeries held by the caller under that name
  snap,     \* the slice a call of Data() returned
  it,       \* the Iterator of series "ts"
  last,     \* the last call and what it returned
  status    \* "init" | "ok" | "err" (constructor error) | "panic"

vars == <<heap, series, snap, it, last, status>>

\* A nil or empty slice: no backing array.
NilSlice == [arr |-> 0, len |-> 0]

\* A nil *TimeSeries.
NilSeries ==
  [live |-> FALSE, key |-> "", start |-> 0, step |-> 0,
   data |-> NilSlice, filler |-> 0]

NilSnap == [live |-> FALSE, arr |-> 0, len |-> 0]

\* No Iterator.  Beside its cursor an iterator carries two history fields:
\* n, the calls of Next() since Iterator() returned it, and clean, whether
\* the series has been left alone and Last() not called since then.
NilIt == [live |-> FALSE, cursor |-> 0, n |-> 0, clean |-> FALSE]

Call(op, obj, t, v, xs, ok, ret) ==
  [op |-> op, obj |-> obj, t |-> t, v |-> v, xs |-> xs, ok |-> ok, ret |-> ret,
   name |-> ""]

NoCall == Call("", "", 0, 0, <<>>, FALSE, 0)

\* ------------------------------------------------------------ slices

\* cap(s)
Cap(h, s) == IF s.arr = 0 THEN 0 ELSE Len(h[s.arr])

\* The elements s[0..len-1].
Elems(h, s) == IF s.arr = 0 THEN <<>> ELSE SubSeq(h[s.arr], 1, s.len)

\* The arrays the holders reference.
Refs(sers, sn) == ({sers[o].data.arr : o \in Objs} \cup {sn.arr}) \ {0}

\* An array no holder references and that is not `cur`.
Fresh(used, cur) == CHOOSE i \in ArrIds : i \notin used /\ i # cur /\
                      \A j \in ArrIds : (j \notin used /\ j # cur) => i <= j

\* make([]float64, n), its elements given: a new array of capacity n.
MakeSlice(h, elems, used) ==
  IF Len(elems) = 0 THEN [heap |-> h, slice |-> NilSlice]
  ELSE LET id == Fresh(used, 0)
       IN  [heap |-> [h EXCEPT ![id] = elems],
            slice |-> [arr |-> id, len |-> Len(elems)]]

\* The capacity Go's growslice gives a []float64 of capacity old that must
\* hold `needed` elements (doubling below 256 elements, then rounded up to
\* the allocator's size class: 8, 16, 24, 32, 48, 64, ... bytes; exact for
\* capacities up to 32).
GrowCap(old, needed) ==
  LET c == IF needed > 2 * old THEN needed ELSE 2 * old
  IN  IF c <= 4 THEN c ELSE c + (c % 2)

\* append(s, xs...): in place when the capacity allows, else into a new
\* array.  append(s) with nothing to append returns s.
append(h, s, xs, used) ==
  LET n == s.len + Len(xs)
  IN  IF Len(xs) = 0 THEN [heap |-> h, slice |-> s]
      ELSE IF n <= Cap(h, s)
      THEN [heap |-> [h EXCEPT ![s.arr] =
                        [i \in 1..Len(@) |->
                           IF i > s.len /\ i <= n THEN xs[i - s.len] ELSE @[i]]],
            slice |-> [arr |-> s.arr, len |-> n]]
      ELSE LET id == Fresh(used, s.arr)
               c  == GrowCap(Cap(h, s), n)
           IN  [heap |-> [h EXCEPT ![id] = Elems(h, s) \o xs \o Fill(c - n, 0)],
                slice |-> [arr |-> id, len |-> n]]

\* for i := 0; i < points; i++ { s = append(s, x) }
RECURSIVE AppendN(_, _, _, _, _)
AppendN(h, s, x, points, used) ==
  IF points <= 0 THEN [heap |-> h, slice |-> s]
  ELSE LET r == append(h, s, <<x>>, used)
       IN  AppendN(r.heap, r.slice, x, points - 1, used)

\* The heap with the arrays renamed after their first holder (ts, cp, tr,
\* the Data() result) and the unreferenced ones freed: addresses carry no
\* meaning beyond which slices share one.
Holders(sers, sn) == <<sers["ts"].data.arr, sers["cp"].data.arr,
                       sers["tr"].data.arr, sn.arr>>

Canon(hs, a) ==
  IF a = 0 THEN 0 ELSE CHOOSE k \in 1..4 : hs[k] = a /\ \A j \in 1..4 : hs[j] = a => k <= j

NormHeap(h, sers, sn) ==
  LET hs == Holders(sers, sn)
  IN  [i \in ArrIds |-> IF i <= 4 /\ hs[i] # 0 /\ Canon(hs, hs[i]) = i
                        THEN h[hs[i]] ELSE <<>>]

NormSeries(sers, sn) ==
  LET hs == Holders(sers, sn)
  IN  [o \in Objs |-> [sers[o] EXCEPT !.data.arr = Canon(hs, @)]]

NormSnap(sers, sn) == [sn EXCEPT !.arr = Canon(Holders(sers, sn), @)]

\* ------------------------------------------------------------ accessors

Start(s) == s.start

Step(s) == s.step

End(s) == s.start + s.data.len * s.step

\* What a caller can observe of a series: its fields and its samples.
Obs(h, s) ==
  [live |-> s.live, key |-> s.key, start |-> s.start, step |-> s.step,
   filler |-> s.filler, data |-> Elems(h, s.data)]

\* ------------------------------------------------------------ NewTimeSeries

Result(kind, err, key, start, step, filler, data) ==
  [kind |-> kind, err |-> err, key |-> key, start |-> start, step |-> step,
   filler |-> filler, data |-> data]

\* NewTimeSeries(key, start, end, step, values...), time.Now() being `now`:
\* an error, a panic (make with a negative length) or the new series' fields.
\* The third check of the code (step == 0 when start # end) cannot fail after
\* the first, and has no branch here.  int is 64 bits wide.
NewTimeSeriesRes(key, start0, end0, step, values, now) ==
  LET singleValue == Len(values) = 1
      filler   == IF singleValue THEN values[1] ELSE NaN
      start    == IF start0 = ZeroT THEN now ELSE start0
      knownEnd == end0 # ZeroT
      end      == IF ~knownEnd /\ end0 < start + Len(values) * step
                  THEN start + Len(values) * step ELSE end0
      size     == TruncDiv(end - start, step)
  IN  IF step = 0
      THEN Result("err", "step can't be 0", key, start, step, filler, <<>>)
      ELSE IF start > end
      THEN Result("err", "start can't be after end", key, start, step, filler, <<>>)
      ELSE IF size < 0
      THEN Result("panic", "makeslice: len out of range", key, start, step, filler, <<>>)
      ELSE Result("ok", "", key, start, step, filler,
                  [i \in 1..size |->
                     IF singleValue THEN filler
                     ELSE IF i <= Len(values) THEN values[i] ELSE 0])

\* NewTimeSeriesOfTimeRange(key, start, end, step, filler)
NewTimeSeriesOfTimeRangeRes(key, start, end, step, filler, now) ==
  NewTimeSeriesRes(key, start, end + step, step, <<filler>>, now)

\* NewTimeSeriesOfLength(key, start, step, length, filler)
NewTimeSeriesOfLengthRes(key, start, step, length, filler, now) ==
  NewTimeSeriesRes(key, start, start + length * step, step, <<filler>>, now)

\* NewTimeSeriesOfData(key, start, step, data)
NewTimeSeriesOfDataRes(key, start, step, data, now) ==
  NewTimeSeriesRes(key, start, ZeroT, step, data, now)

\* The series a result stands for, its samples in a new array.
Built(r, slice) ==
  [live |-> TRUE, key |-> r.key, start |-> r.start, step |-> r.step,
   data |-> slice, filler |-> r.filler]

\* The heap, the series and the Data() result after a call, arrays renamed.
Commit(h, sers, sn) ==
  /\ heap' = NormHeap(h, sers, sn)
  /\ series' = NormSeries(sers, sn)
  /\ snap' = NormSnap(sers, sn)

\* The caller's state after a constructor returned r.
Construct(op, r, start0, end0, values) ==
  /\ status = "init" /\ last = NoCall
  /\ r.kind = "ok" => Len(r.data) <= MaxLen
  /\ status' = r.kind
  /\ last' = Call(op, "ts", start0, end0, values, r.kind = "ok", r.step)
  /\ it' = it
  /\ IF r.kind = "ok"
     THEN LET m == MakeSlice(heap, r.data, Refs(series, snap))
          IN  Commit(m.heap, [series EXCEPT !["ts"] = Built(r, m.slice)], snap)
     ELSE UNCHANGED <<heap, series, snap>>

NewTimeSeries(key, start, end, step, values, now) ==
  Construct("NewTimeSeries", NewTimeSeriesRes(key, start, end, step, values, now),
            start, end, values)

NewTimeSeriesOfTimeRange(key, start, end, step, filler, now) ==
  Construct("NewTimeSeriesOfTimeRange",
            NewTimeSeriesOfTimeRangeRes(key, start, end, step, filler, now),
            start, end, <<filler>>)

NewTimeSeriesOfLength(key, start, step, length, filler, now) ==
  Construct("NewTimeSeriesOfLength",
            NewTimeSeriesOfLengthRes(key, start, step, length, filler, now),
            start, length, <<filler>>)

NewTimeSeriesOfData(key, start, step, data, now) ==
  Construct("NewTimeSeriesOfData",
            NewTimeSeriesOfDataRes(key, start, step, data, now),
            start, ZeroT, data)

\* ------------------------------------------------------------ point access

\* The caller is between two calls: the last one returned and its result
\* has been taken.
Idle == status = "ok" /\ last = NoCall

\* The caller takes the result of the call that returned.
Return ==
  /\ status = "ok" /\ last # NoCall
  /\ last' = NoCall
  /\ UNCHANGED <<heap, series, snap, it, status>>

\* ts.index(t): -1, or the truncated quotient (t - start) / step.
index(s, t) ==
  IF t < s.start THEN -1
  ELSE IF t > s.start + (s.data.len - 1) * s.step THEN -1
  ELSE TruncDiv(t - s.start, s.step)

\* ts.data[i] is inside the slice (else Go panics: index out of range).
InBounds(s, i) == 0 <= i /\ i < s.data.len

\* A call that panicked: the goroutine unwinds, nothing was written.
Panic(op, o, t, v) ==
  /\ status' = "panic"
  /\ last' = Call(op, o, t, v, <<>>, FALSE, 0)
  /\ UNCHANGED <<heap, series, snap, it>>

\* A write to the series the iterator walks ends the undisturbed walk.
Touched(o) == IF o = "ts" /\ it.live THEN [it EXCEPT !.clean = FALSE] ELSE it

\* What ts.GetAt(t) does: panics, or returns (val, ok).
GetAtRes(h, s, t) ==
  LET i == index(s, t)
  IN  IF i = -1 THEN [panic |-> FALSE, ok |-> FALSE, val |-> NaN]
      ELSE IF ~InBounds(s, i) THEN [panic |-> TRUE, ok |-> FALSE, val |-> NaN]
      ELSE [panic |-> FALSE, ok |-> TRUE, val |-> h[s.data.arr][i + 1]]

\* ts.GetAt(t)
GetAt(o, t) ==
  /\ Idle /\ series[o].live
  /\ LET g == GetAtRes(heap, series[o], t)
     IN  IF g.panic THEN Panic("GetAt", o, t, 0)
         ELSE /\ last' = Call("GetAt", o, t, 0, <<>>, g.ok, g.val)
              /\ UNCHANGED <<heap, series, snap, it, status>>

\* ts.SetAt(t, value)
SetAt(o, t, value) ==
  /\ Idle /\ series[o].live
  /\ LET s == series[o]
         i == index(s, t)
     IN  IF i = -1
         THEN /\ last' = Call("SetAt", o, t, value, <<>>, FALSE, 0)
              /\ UNCHANGED <<heap, series, snap, it, status>>
         ELSE IF ~InBounds(s, i) THEN Panic("SetAt", o, t, value)
         ELSE /\ last' = Call("SetAt", o, t, value, <<>>, TRUE, 0)
              /\ heap' = [heap EXCEPT ![s.data.arr][i + 1] = value]
              /\ it' = Touched(o)
              /\ UNCHANGED <<series, snap, status>>

\* ------------------------------------------------------------ extension

\* The number of samples ExtendTo(t) appends.
ExtendToPoints(s, t) ==
  IF t < End(s) THEN 0 ELSE TruncDiv(t + s.step - End(s), s.step)

\* ExtendBy with the quotient rounded away from zero.
ExtendByPointsRoundedUp(s, d) ==
  TruncDiv(d, s.step) + (IF d = TruncDiv(d, s.step) * s.step THEN 0 ELSE 1)

\* points := d / ts.step in ExtendBy(d).
ExtendByPoints(s, d) == TruncDiv(d, s.step)

\* for i := 0; i < int(points); i++ { ts.data = append(ts.data, ts.filler) }
Extend(op, o, arg, points) ==
  /\ Idle /\ series[o].live
  /\ series[o].data.len + points <= MaxLen
  /\ LET s == series[o]
         r == AppendN(heap, s.data, s.filler, points, Refs(series, snap))
     IN  Commit(r.heap, [series EXCEPT ![o].data = r.slice], snap)
  /\ last' = Call(op, o, arg, 0, <<>>, TRUE, points)
  /\ it' = Touched(o)
  /\ UNCHANGED status

\* ts.ExtendTo(t)
ExtendTo(o, t) == Extend("ExtendTo", o, t, ExtendToPoints(series[o], t))

\* ts.ExtendBy(d)
ExtendBy(o, d) == Extend("ExtendBy", o, d, ExtendByPoints(series[o], d))

\* ts.ExtendWith(data...)
ExtendWith(o, data) ==
  /\ Idle /\ series[o].live
  /\ series[o].data.len + Len(data) <= MaxLen
  /\ LET r == append(heap, series[o].data, data, Refs(series, snap))
     IN  Commit(r.heap, [series EXCEPT ![o].data = r.slice], snap)
  /\ last' = Call("ExtendWith", o, 0, 0, data, TRUE, 0)
  /\ it' = Touched(o)
  /\ UNCHANGED status

\* ------------------------------------------------------------ iteration

\* No walk takes more than MaxLen + MaxOver calls of Next.
MaxOver == 2

\* ts.Iterator()
Iterator ==
  /\ Idle /\ series["ts"].live
  /\ it' = [live |-> TRUE, cursor |-> series["ts"].start, n |-> 0, clean |-> TRUE]
  /\ last' = Call("Iterator", "ts", 0, 0, <<>>, TRUE, 0)
  /\ UNCHANGED <<heap, series, snap, status>>

\* it.Next(): the sample at the cursor, and the cursor one step on.
Next ==
  /\ Idle /\ it.live
  /\ it.n < MaxLen + MaxOver
  /\ LET g == GetAtRes(heap, series["ts"], it.cursor)
     IN  IF g.panic THEN Panic("Next", "ts", it.cursor, 0)
         ELSE /\ last' = Call("Next", "ts", it.cursor, 0, <<>>, g.ok, g.val)
              /\ it' = [it EXCEPT !.cursor = @ + series["ts"].step, !.n = @ + 1]
              /\ UNCHANGED <<heap, series, snap, status>>

\* it.Last(): the cursor moved to End() - step, and the sample there.
Last ==
  /\ Idle /\ it.live
  /\ LET c == End(series["ts"]) - series["ts"].step
         g == GetAtRes(heap, series["ts"], c)
     IN  IF g.panic THEN Panic("Last", "ts", c, 0)
         ELSE /\ last' = Call("Last", "ts", c, 0, <<>>, g.ok, g.val)
              /\ it' = [it EXCEPT !.cursor = c, !.clean = FALSE]
              /\ UNCHANGED <<heap, series, snap, status>>

\* ------------------------------------------------------------ copies

\* Data() that returns the series' own slice.
DataShared(h, s, used) == [heap |-> h, slice |-> s.data]

\* ts.Data(): the samples in a new array.
Data(h, s, used) == MakeSlice(h, Elems(h, s.data), used)

\* Copy() that copies the struct, its slice header included.
CopyShallow(h, s, used) == [heap |-> h, series |-> s]

\* ts.Copy(): the fields by value, the samples through Data().
Copy(h, s, used) ==
  LET d == Data(h, s, used)
  IN  [heap |-> d.heap, series |-> [s EXCEPT !.data = d.slice]]

\* The implementations of interface Transform the callers of the model pass.
Transforms ==
  { [name |-> "flip", f |-> [v \in Values |-> IF v = NaN THEN NaN ELSE 1 - v]],
    [name |-> "one",  f |-> [v \in Values |-> 1]] }

\* ts.Transform(transform): a copy, renamed, each sample mapped in place.
Transform(h, s, transform, used) ==
  LET c == Copy(h, s, used)
      a == c.series.data.arr
  IN  [heap |-> IF a = 0 THEN c.heap
                ELSE [c.heap EXCEPT ![a] =
                        [i \in 1..Len(@) |->
                           IF i <= c.series.data.len THEN transform.f[@[i]] ELSE @[i]]],
       series |-> [c.series EXCEPT !.key = transform.name \o "(" \o s.key \o ")"]]

\* data := ts.Data()
CallData ==
  /\ Idle /\ series["ts"].live
  /\ LET d == Data(heap, series["ts"], Refs(series, snap))
     IN  Commit(d.heap, series, [live |-> TRUE, arr |-> d.slice.arr, len |-> d.slice.len])
  /\ last' = Call("Data", "ts", 0, 0, <<>>, TRUE, 0)
  /\ UNCHANGED <<it, status>>

\* data[i] = v, by the caller that holds the slice Data() returned.
WriteData(i, v) ==
  /\ Idle /\ snap.live /\ i < snap.len
  /\ heap' = [heap EXCEPT ![snap.arr][i + 1] = v]
  /\ last' = Call("WriteData", "snap", i, v, <<>>, TRUE, 0)
  /\ UNCHANGED <<series, snap, it, status>>

\* cp := ts.Copy()
CallCopy ==
  /\ Idle /\ series["ts"].live
  /\ LET c == Copy(heap, series["ts"], Refs(series, snap))
     IN  Commit(c.heap, [series EXCEPT !["cp"] = c.series], snap)
  /\ last' = Call("Copy", "ts", 0, 0, <<>>, TRUE, 0)
  /\ UNCHANGED <<it, status>>

\* tr := ts.Transform(transform)
CallTransform(transform) ==
  /\ Idle /\ series["ts"].live
  /\ LET c == Transform(heap, series["ts"], transform, Refs(series, snap))
     IN  Commit(c.heap, [series EXCEPT !["tr"] = c.series], snap)
  /\ last' = [Call("Transform", "ts", 0, 0, <<>>, TRUE, 0) EXCEPT !.name = transform.name]
  /\ UNCHANGED <<it, status>>

\* ts.SetKey(key)
SetKey(o, key) ==
  /\ Idle /\ series[o].live /\ series[o].key # key
  /\ series' = [series EXCEPT ![o].key = key]
  /\ last' = Call("SetKey", o, 0, 0, <<>>, TRUE, 0)
  /\ UNCHANGED <<heap, snap, it, status>>

\* ------------------------------------------------------------ specifications

\* Before the caller has constructed anything.
Init ==
  /\ heap = [i \in ArrIds |-> <<>>]
  /\ series = [o \in Objs |-> NilSeries]
  /\ snap = NilSnap
  /\ it = NilIt
  /\ last = NoCall
  /\ status = "init"

\* The values a caller passes: up to MaxArgs of them.
MaxArgs == 2

ArgLists == SeqsUpTo(Values, MaxArgs)

\* The constructors, called with a step of StepSet.
CallNewTimeSeries(StepSet) ==
  /\ status = "init"
  /\ \E start \in Starts, end \in Ends, step \in StepSet, values \in ArgLists, now \in Now :
       NewTimeSeries("x", start, end, step, values, now)

CallNewTimeSeriesOfTimeRange(StepSet) ==
  /\ status = "init"
  /\ \E start \in Starts, end \in Ends, step \in StepSet, filler \in Values, now \in Now :
       NewTimeSeriesOfTimeRange("x", start, end, step, filler, now)

CallNewTimeSeriesOfLength(StepSet) ==
  /\ status = "init"
  /\ \E start \in Starts, step \in StepSet, length \in (-1)..MaxLen, filler \in Values, now \in Now :
       NewTimeSeriesOfLength("x", start, step, length, filler, now)

CallNewTimeSeriesOfData(StepSet) ==
  /\ status = "init"
  /\ \E start \in Starts, step \in StepSet, data \in ArgLists, now \in Now :
       NewTimeSeriesOfData("x", start, step, data, now)

\* One series, read, written and extended by its caller.
NextSeries ==
  \/ CallNewTimeSeries(Steps)
  \/ CallNewTimeSeriesOfTimeRange(Steps)
  \/ CallNewTimeSeriesOfLength(Steps)
  \/ CallNewTimeSeriesOfData(Steps)
  \/ Idle /\ \E t \in Times : GetAt("ts", t)
  \/ Idle /\ \E t \in Times, v \in Values : SetAt("ts", t, v)
  \/ Idle /\ \E t \in Times : ExtendTo("ts", t)
  \/ Idle /\ \E d \in Durations : ExtendBy("ts", d)
  \/ Idle /\ \E data \in ArgLists : ExtendWith("ts", data)
  \/ Return

Spec == Init /\ [][NextSeries]_vars

\* The same caller, when it passes the constructors steps >= 0 only.
NextPositive ==
  \/ CallNewTimeSeries(0..MaxStep)
  \/ CallNewTimeSeriesOfTimeRange(0..MaxStep)
  \/ CallNewTimeSeriesOfLength(0..MaxStep)
  \/ CallNewTimeSeriesOfData(0..MaxStep)
  \/ Idle /\ \E t \in Times : GetAt("ts", t)
  \/ Idle /\ \E t \in Times, v \in Values : SetAt("ts", t, v)
  \/ Idle /\ \E t \in Times : ExtendTo("ts", t)
  \/ Idle /\ \E d \in Durations : ExtendBy("ts", d)
  \/ Idle /\ \E data \in ArgLists : ExtendWith("ts", data)
  \/ Return

SpecPositive == Init /\ [][NextPositive]_vars

\* One series and an iterator over it; the series may be written and
\* extended while the iterator walks it.
NextIterator ==
  \/ CallNewTimeSeries(Steps)
  \/ CallNewTimeSeriesOfTimeRange(Steps)
  \/ CallNewTimeSeriesOfLength(Steps)
  \/ CallNewTimeSeriesOfData(Steps)
  \/ Idle /\ \E data \in ArgLists : ExtendWith("ts", data)
  \/ Iterator
  \/ Next
  \/ Last
  \/ Return

SpecIterator == Init /\ [][NextIterator]_vars

\* The instants, durations and samples the caller of the copies passes.
CopyTimes == 0..(MaxLen + 1)

CopyDurations == {-1, 1, 2}

CopyLists == {<<1>>, <<0, 1>>}

\* A caller that holds one series, built from a list of samples.
InitCopies ==
  \E key \in Keys, step \in {-1, 2}, data \in CopyLists \cup {<<>>} :
    LET r == NewTimeSeriesOfDataRes(key, 1, step, data, 1)
        m == MakeSlice([i \in ArrIds |-> <<>>], r.data, {})
    IN  /\ r.kind = "ok"
        /\ heap = m.heap
        /\ series = [o \in Objs |-> IF o = "ts" THEN Built(r, m.slice) ELSE NilSeries]
        /\ snap = NilSnap
        /\ it = NilIt
        /\ last = NoCall
        /\ status = "ok"

\* A series and its Copy(), or a series and its Data(), each written and
\* extended on its own (a caller takes copies or slices of the series, not
\* both).
NextCopies ==
  \/ ~snap.live /\ CallCopy
  \/ ~series["cp"].live /\ CallData
  \/ Idle /\ \E i \in 0..(MaxLen - 1) : WriteData(i, 1)
  \/ Idle /\ \E o \in {"ts", "cp"}, t \in CopyTimes : SetAt(o, t, 1)
  \/ Idle /\ \E o \in {"ts", "cp"}, t \in CopyTimes : ExtendTo(o, t)
  \/ Idle /\ \E o \in {"ts", "cp"}, d \in CopyDurations : ExtendBy(o, d)
  \/ Idle /\ \E o \in {"ts", "cp"}, data \in CopyLists : ExtendWith(o, data)
  \/ Return

SpecCopies == InitCopies /\ [][NextCopies]_vars

\* A series and its Transform(), each renamed, written and extended on its
\* own.
NextTransform ==
  \/ \E transform \in Transforms : CallTransform(transform)
  \/ Idle /\ \E o \in {"ts", "tr"} : SetKey(o, "y")
  \/ Idle /\ \E o \in {"ts", "tr"}, t \in CopyTimes : SetAt(o, t, 1)
  \/ Idle /\ \E o \in {"ts", "tr"}, t \in CopyTimes : ExtendTo(o, t)
  \/ Idle /\ \E o \in {"ts", "tr"}, d \in CopyDurations : ExtendBy(o, d)
  \/ Idle /\ \E o \in {"ts", "tr"}, data \in CopyLists : ExtendWith(o, data)
  \/ Return

SpecTransform == InitCopies /\ [][NextTransform]_vars

\* ------------------------------------------------------------ properties

\* The series under test, its samples and its length.
ts == series["ts"]

TsData == Elems(heap, ts.data)

TsLen == ts.data.len

\* floor(a / b)
FloorDiv(a, b) == IF b > 0 THEN a \div b ELSE (0 - a) \div (0 - b)

Found(val) == [panic |-> FALSE, ok |-> TRUE, val |-> val]

\* C1: GetAt(Start() + i*Step()) returns (Data()[i], true) for every index i
\* of the series, and GetAt(t) returns found = false for every t < Start()
\* and every t >= End().
C1_GetAtOnGrid ==
  last.op = "GetAt" =>
    /\ status = "ok"
    /\ \A i \in 0..(TsLen - 1) :
         last.t = Start(ts) + i * Step(ts) => last.ok /\ last.ret = TsData[i + 1]
    /\ (last.t < Start(ts) \/ last.t >= End(ts)) => ~last.ok

C3_StartBeforeEnd == ts.live => Start(ts) <= End(ts)

\* C4: NewTimeSeries with a known end = start + n*step (n >= 1, step > 0)
\* and no values returns n samples, each NaN.
C4_NoValuesAllNaN ==
  (/\ last.op = "NewTimeSeries" /\ last.xs = <<>>
   /\ last.t # ZeroT /\ last.v # ZeroT /\ last.ret > 0
   /\ last.v >= last.t + last.ret
   /\ (last.v - last.t) % last.ret = 0)
  => /\ status = "ok"
     /\ TsLen = (last.v - last.t) \div last.ret
     /\ \A i \in 1..TsLen : TsData[i] = NaN

\* What the code does in the case of C4: n samples, each 0.
C4_NoValuesAllZero ==
  (/\ last.op = "NewTimeSeries" /\ last.xs = <<>>
   /\ last.t # ZeroT /\ last.v # ZeroT /\ last.ret > 0
   /\ last.v >= last.t + last.ret
   /\ (last.v - last.t) % last.ret = 0)
  => /\ status = "ok"
     /\ TsLen = (last.v - last.t) \div last.ret
     /\ \A i \in 1..TsLen : TsData[i] = 0

\* C5: no call aborts: the constructor returns an error or a series, and
\* every other operation returns.
C5_NoPanic == status # "panic"


\* C7: on a series of length N that is not written during the walk, the
\* first N calls of Next() of a new Iterator return Data()[0..N-1] in order,
\* each with found = true, and every later call returns found = false.
C7_IteratorWalk ==
  [][last'.op = "Next" /\ it.clean =>
       /\ status' = "ok"
       /\ IF it.n < TsLen
          THEN last'.ok /\ last'.ret = TsData[it.n + 1]
          ELSE ~last'.ok]_vars

\* C7 for the series whose step is positive.
C7_PositiveStep ==
  [][last'.op = "Next" /\ it.clean /\ Step(ts) > 0 =>
       /\ status' = "ok"
       /\ IF it.n < TsLen
          THEN last'.ok /\ last'.ret = TsData[it.n + 1]
          ELSE ~last'.ok]_vars

C7_PositiveStepWitness ==
  /\ last.op = "Next" /\ it.clean /\ Step(ts) > 0
  /\ TsLen >= 2 /\ it.n = TsLen + 1 /\ ~last.ok

\* The samples of series s after a call are those before it and then n
\* fillers; its key, start, step and filler are as before.
Appended(h1, s1, h2, s2, n) ==
  /\ s2.key = s1.key /\ s2.start = s1.start /\ s2.step = s1.step
  /\ s2.filler = s1.filler
  /\ Elems(h2, s2.data) = Elems(h1, s1.data) \o Fill(n, s1.filler)

\* C8 as stated: ExtendBy(d) grows the series by exactly floor(d / Step())
\* samples, each the filler, and changes nothing else.
C8_ExtendByFloor ==
  [][last'.op = "ExtendBy" =>
       /\ status' = "ok"
       /\ series'["ts"].data.len = TsLen + FloorDiv(last'.t, Step(ts))
       /\ Appended(heap, ts, heap', series'["ts"], FloorDiv(last'.t, Step(ts)))]_vars

\* C8, amended: ExtendBy(d) grows the series by exactly
\* max(0, floor(d / Step())) samples, each the filler, and changes nothing
\* else.
C8_ExtendByFloorOrNothing ==
  [][last'.op = "ExtendBy" =>
       /\ status' = "ok"
       /\ series'["ts"].data.len = TsLen + Max(0, FloorDiv(last'.t, Step(ts)))
       /\ Appended(heap, ts, heap', series'["ts"],
                   Max(0, FloorDiv(last'.t, Step(ts))))]_vars

\* ExtendBy(d) returned, d not a multiple of the step, on a series that had
\* samples: some were appended ...
C8_Witness ==
  /\ last.op = "ExtendBy" /\ last.t # last.ret * Step(ts)
  /\ last.ret >= 1 /\ TsLen > last.ret

\* ... and d / step negative: none were.
C8_WitnessNegative ==
  /\ last.op = "ExtendBy" /\ last.ret < 0 /\ TsLen >= 1

\* C10: ExtendTo(t) changes nothing when t < End(); when t >= End() it
\* appends exactly trunc((t + step - End()) / step) fillers, after which
\* End() - Step() <= t < End(), so that ExtendTo(t) again changes nothing.
C10_ExtendTo ==
  [][last'.op = "ExtendTo" =>
       /\ status' = "ok"
       /\ IF last'.t < End(ts)
          THEN Obs(heap', series'["ts"]) = Obs(heap, ts)
          ELSE /\ Appended(heap, ts, heap', series'["ts"],
                           TruncDiv(last'.t + Step(ts) - End(ts), Step(ts)))
               /\ last'.t < End(series'["ts"])
               /\ End(series'["ts"]) - Step(ts) <= last'.t
               /\ ExtendToPoints(series'["ts"], last'.t) = 0]_vars


\* The samples of the slice Data() returned.
SnapData == Elems(heap, snap)

\* The one holder a call may change: the receiver of a write or an
\* extension, the result of Copy(), Transform() and Data().
Written(c) ==
  IF c.op = "Copy" THEN "cp"
  ELSE IF c.op = "Transform" THEN "tr"
  ELSE IF c.op = "Data" THEN "snap"
  ELSE c.obj

\* C6: Copy() returns a series with the key, start, step, filler and samples
\* of the original; after that no write to or extension of the copy changes
\* what the original holds, none of the original changes the copy, and the
\* slice Data() returned shares nothing with either.
C6_CopyIndependent ==
  [][/\ last'.op = "Copy" =>
          /\ Obs(heap', series'["cp"]) = Obs(heap, ts)
          /\ Obs(heap', series'["ts"]) = Obs(heap, ts)
     /\ last'.op = "Data" =>
          /\ Elems(heap', snap') = TsData
          /\ Obs(heap', series'["ts"]) = Obs(heap, ts)
     /\ last' # NoCall =>
          /\ \A o \in {"ts", "cp"} :
               Written(last') # o => Obs(heap', series'[o]) = Obs(heap, series[o])
          /\ Written(last') # "snap" => Elems(heap', snap') = SnapData]_vars

\* The copy was written where the original holds another sample, and both
\* have since kept their own.
C6_Witness ==
  /\ series["cp"].live
  /\ last.op = "SetAt" /\ last.obj = "cp" /\ last.ok
  /\ TsLen >= 2 /\ series["cp"].data.len > TsLen
  /\ \E i \in 1..TsLen : Elems(heap, series["cp"].data)[i] # TsData[i]

\* The slice Data() returned was written where the series holds another
\* sample, and the series was then extended.
C6_WitnessData ==
  /\ snap.live /\ last.op = "ExtendBy" /\ last.obj = "ts" /\ last.ret >= 1
  /\ snap.len >= 2 /\ TsLen > snap.len
  /\ \E i \in 1..snap.len : SnapData[i] # TsData[i]

\* The transform of the name a call of Transform was given.
TransformNamed(name) == CHOOSE tf \in Transforms : tf.name = name

\* C9: Transform(t) returns a new series with the start, step and length of
\* the source, whose i-th sample is t.Transform(source[i]) and whose key is
\* t.Name() + "(" + the source's key + ")"; the source's key and samples are
\* as before, and later writes to either series leave the other as it was.
C9_TransformIndependent ==
  [][/\ last'.op = "Transform" =>
          LET new == series'["tr"]
              tf  == TransformNamed(last'.name)
          IN  /\ new.live
              /\ new.start = Start(ts) /\ new.step = Step(ts)
              /\ new.data.len = TsLen
              /\ \A i \in 1..TsLen : Elems(heap', new.data)[i] = tf.f[TsData[i]]
              /\ new.key = tf.name \o "(" \o ts.key \o ")"
              /\ Obs(heap', series'["ts"]) = Obs(heap, ts)
     /\ last' # NoCall =>
          \A o \in {"ts", "tr"} :
            Written(last') # o => Obs(heap', series'[o]) = Obs(heap, series[o])]_vars

\* A series of two samples was transformed into other samples, and the
\* source was then written.
C9_Witness ==
  /\ series["tr"].live /\ TsLen >= 2 /\ series["tr"].data.len = TsLen
  /\ last.op = "SetAt" /\ last.obj = "ts" /\ last.ok
  /\ series["tr"].key = "flip(y)"
  /\ \A i \in 1..TsLen : Elems(heap, series["tr"].data)[i] = 0 /\ TsData[i] = 1

====
